---- MODULE Spec2Model ----
(***************************************************************************)
(* Model of scripts/download_and_convert.py: the archive-URL resolver      *)
(* (parse_archive_base), the fetch-convert pipeline (download_and_convert) *)
(* and the run orchestrator (main).                                        *)
(*                                                                         *)
(* Strings are sequences of one-character strings, so that basename,       *)
(* splitext, split, strip, lower and endswith are computed as Python       *)
(* computes them.  The two directories are functions from file names to    *)
(* "absent" / "partial" / "full".  The HTTP server, the transcoder and the *)
(* filesystem's answer to os.remove are the environment: every outcome the *)
(* code distinguishes is a nondeterministic choice.                        *)
(***************************************************************************)
EXTENDS Integers, Sequences, FiniteSets, TLC

\* ------------------------------------------------------------------------
\* Bounds of the model and constants of the program
\* ------------------------------------------------------------------------

\* most entries of the comma-separated --manual-urls argument
MaxManual == 2

MAX_RETRIES == 3

RETRY_WAIT_SEC == 5

\* ------------------------------------------------------------------------
\* Python string functions, on sequences of characters
\* ------------------------------------------------------------------------

\* str.lower(), on the characters the model uses
LowerChar(c) ==
    CASE c = "A" -> "a"
      [] c = "B" -> "b"
      [] c = "R" -> "r"
      [] OTHER -> c

LowerStr(s) == [i \in DOMAIN s |-> LowerChar(s[i])]

\* ord(), on the characters the model uses (sorted() compares code points)
Ord(c) ==
    CASE c = " " -> 32
      [] c = "," -> 44
      [] c = "." -> 46
      [] c = "/" -> 47
      [] c = "1" -> 49
      [] c = "2" -> 50
      [] c = "3" -> 51
      [] c = ":" -> 58
      [] c = "A" -> 65
      [] c = "B" -> 66
      [] c = "R" -> 82
      [] c = "a" -> 97
      [] c = "b" -> 98
      [] c = "c" -> 99
      [] c = "d" -> 100
      [] c = "h" -> 104
      [] c = "m" -> 109
      [] c = "o" -> 111
      [] c = "p" -> 112
      [] c = "q" -> 113
      [] c = "r" -> 114
      [] c = "s" -> 115
      [] c = "w" -> 119
      [] OTHER -> 0

\* s < t for Python strings
RECURSIVE StrLess(_, _)
StrLess(s, t) ==
    IF t = <<>> THEN FALSE
    ELSE IF s = <<>> THEN TRUE
    ELSE IF Ord(Head(s)) # Ord(Head(t)) THEN Ord(Head(s)) < Ord(Head(t))
    ELSE StrLess(Tail(s), Tail(t))

\* sorted(S) for a set of strings
RECURSIVE Sorted(_)
Sorted(S) ==
    IF S = {} THEN <<>>
    ELSE LET m == CHOOSE x \in S : \A y \in S \ {x} : StrLess(x, y)
         IN <<m>> \o Sorted(S \ {m})

\* str.rfind(c) + 1: the 1-based place of the last c, 0 when there is none
RFind(s, c) ==
    LET I == {i \in DOMAIN s : s[i] = c}
    IN IF I = {} THEN 0 ELSE CHOOSE i \in I : \A j \in I : j <= i

\* str.find(c) + 1: the 1-based place of the first c, 0 when there is none
Find(s, c) ==
    LET I == {i \in DOMAIN s : s[i] = c}
    IN IF I = {} THEN 0 ELSE CHOOSE i \in I : \A j \in I : i <= j

\* str.endswith(suf)
EndsWith(s, suf) ==
    /\ Len(suf) <= Len(s)
    /\ SubSeq(s, Len(s) - Len(suf) + 1, Len(s)) = suf

\* str.startswith(pre)
StartsWith(s, pre) ==
    /\ Len(pre) <= Len(s)
    /\ SubSeq(s, 1, Len(pre)) = pre

\* str.split(sep, maxsplit) for a one-character sep; maxsplit < 0: no limit
RECURSIVE Split(_, _, _)
Split(s, sep, maxsplit) ==
    LET i == Find(s, sep)
    IN IF i = 0 \/ maxsplit = 0 THEN <<s>>
       ELSE <<SubSeq(s, 1, i - 1)>>
                \o Split(SubSeq(s, i + 1, Len(s)), sep, maxsplit - 1)

\* str.lstrip() / str.rstrip() / str.strip(): white space is the blank
RECURSIVE LStrip(_)
LStrip(s) == IF s # <<>> /\ Head(s) = " " THEN LStrip(Tail(s)) ELSE s

RECURSIVE RStrip(_)
RStrip(s) ==
    IF s # <<>> /\ s[Len(s)] = " " THEN RStrip(SubSeq(s, 1, Len(s) - 1)) ELSE s

Strip(s) == RStrip(LStrip(s))

\* str.rstrip("/")
RECURSIVE RStripSlash(_)
RStripSlash(s) ==
    IF s # <<>> /\ s[Len(s)] = "/" THEN RStripSlash(SubSeq(s, 1, Len(s) - 1))
    ELSE s

\* sep.join(parts)
RECURSIVE Join(_, _)
Join(parts, sep) ==
    IF parts = <<>> THEN <<>>
    ELSE IF Len(parts) = 1 THEN parts[1]
    ELSE parts[1] \o sep \o Join(Tail(parts), sep)

\* os.path.basename(p): what follows the last "/"
basename(p) == SubSeq(p, RFind(p, "/") + 1, Len(p))

\* os.path.dirname(p): what precedes the last "/", without trailing slashes
\* unless it is made of slashes only
dirname(p) ==
    LET head == SubSeq(p, 1, RFind(p, "/"))
    IN IF head # <<>> /\ \E i \in DOMAIN head : head[i] # "/"
       THEN RStripSlash(head)
       ELSE head

\* os.path.splitext(p)[0]: p without its extension; leading dots of the
\* name are no extension
splitext_root(p) ==
    LET sepIndex == RFind(p, "/")
        dotIndex == RFind(p, ".")
    IN IF /\ dotIndex > sepIndex
          /\ \E i \in (sepIndex + 1)..(dotIndex - 1) : p[i] # "."
       THEN SubSeq(p, 1, dotIndex - 1)
       ELSE p

DotRa == <<".", "r", "a">>

DotFlac == <<".", "f", "l", "a", "c">>

\* ------------------------------------------------------------------------
\* The universe of the runs: asset URLs and manual entries
\* ------------------------------------------------------------------------

UrlPA == <<"p", "/", "a", ".", "r", "a">>

UrlQA == <<"q", "/", "a", ".", "r", "a">>

UrlPB == <<"p", "/", "b", ".", "R", "A">>

UrlPC == <<"p", "/", "c", ".", "m", "p", "3">>

\* what the harvest can find: hrefs that end in .ra, whatever the case
HarvestURLS == {UrlPA, UrlQA, UrlPB}

\* what one entry of --manual-urls can be
ManualEntries == {<<" ">> \o UrlPA, UrlPC, <<" ">>}

URLS == HarvestURLS \cup {UrlPC}

\* the local_ra_path of a file name: line 71
RaNames == {basename(u) : u \in URLS}

\* flac_filename: line 72
flac_filename(filename) == splitext_root(filename) \o DotFlac

FlacNames == {flac_filename(n) : n \in RaNames}

RECURSIVE SeqsUpTo(_, _)
SeqsUpTo(S, n) ==
    IF n = 0 THEN {<<>>}
    ELSE LET shorter == SeqsUpTo(S, n - 1)
         IN shorter \cup {Append(q, x) : q \in shorter, x \in S}

\* the values of args.manual_urls
ManualInputs == {Join(q, <<",">>) : q \in SeqsUpTo(ManualEntries, MaxManual)}

\* the statuses the server answers with
Statuses == {200, 204, 404}


\* ------------------------------------------------------------------------
\* urllib.parse.urlparse and parse_archive_base
\* ------------------------------------------------------------------------

Letters == {"a", "b", "c", "d", "e", "h", "m", "o", "p", "q", "r", "s", "t",
            "w", "A", "B", "R"}

Digits == {"1", "2", "3"}

\* urllib.parse.scheme_chars
SchemeChars == Letters \cup Digits \cup {"+", "-", "."}

Http == <<"h", "t", "t", "p">>

Https == <<"h", "t", "t", "p", "s">>

\* urllib.parse.uses_params, the schemes within the model's reach
UsesParams == {<<>>, Http, Https}

\* s up to the first of the characters cs, and s from there on
CutAtAny(s, cs) ==
    LET I == {i \in DOMAIN s : s[i] \in cs}
        at == IF I = {} THEN Len(s) + 1 ELSE CHOOSE i \in I : \A j \in I : i <= j
    IN <<SubSeq(s, 1, at - 1), SubSeq(s, at, Len(s))>>

\* urllib.parse._splitparams(p)[0]
SplitParams(p) ==
    LET slash == RFind(p, "/")
        I == {i \in DOMAIN p : p[i] = ";" /\ (slash = 0 \/ i >= slash)}
    IN IF I = {} THEN p
       ELSE SubSeq(p, 1, (CHOOSE i \in I : \A j \in I : i <= j) - 1)

\* urlparse(u): its scheme, netloc and path
urlparse(u) ==
    LET i == Find(u, ":")
        hasScheme == /\ i > 1
                     /\ u[1] \in Letters
                     /\ \A k \in 1..(i - 1) : u[k] \in SchemeChars
        scheme == IF hasScheme THEN LowerStr(SubSeq(u, 1, i - 1)) ELSE <<>>
        rest == IF hasScheme THEN SubSeq(u, i + 1, Len(u)) ELSE u
        hasNetloc == StartsWith(rest, <<"/", "/">>)
        loc == IF hasNetloc
               THEN CutAtAny(SubSeq(rest, 3, Len(rest)), {"/", "?", "#"})
               ELSE <<<<>>, rest>>
        noFragment == CutAtAny(loc[2], {"#"})[1]
        noQuery == CutAtAny(noFragment, {"?"})[1]
    IN [scheme |-> scheme,
        netloc |-> loc[1],
        path |-> IF scheme \in UsesParams THEN SplitParams(noQuery)
                 ELSE noQuery]

NoPair == [returned |-> FALSE, ok |-> FALSE, ts |-> <<>>, orig_base |-> <<>>]

\* parse_archive_base(page_url): lines 35-54
parse_archive_base(page_url) ==
    LET parts == Split(urlparse(page_url).path, "/", 4)
    IN IF Len(parts) < 5
       THEN [returned |-> TRUE, ok |-> FALSE, ts |-> <<>>, orig_base |-> <<>>]
       ELSE LET ts == parts[3]
                orig_full == parts[4] \o <<"/", "/">> \o parts[5]
                parsed_orig == urlparse(orig_full)
                orig_domain == parsed_orig.scheme \o <<":", "/", "/">>
                                   \o parsed_orig.netloc
                orig_dir == dirname(parsed_orig.path) \o <<"/">>
            IN [returned |-> TRUE, ok |-> TRUE, ts |-> ts,
                orig_base |-> orig_domain \o orig_dir]

\* the archive's own scheme and host, before the path
ArchiveHost == Https \o <<":", "/", "/", "w">>

Web == <<"w", "e", "b">>

PageTs == {<<"1">>, <<"1", "2">>}

PageSchemes == {Http, Https}

PageHosts == {<<"o">>, <<"o", ".", "d">>}

PagePaths == {<<>>, <<"a">>, <<"a", "/">>, <<"a", "/", "b">>,
              <<"d", "/", "a", ".", "b">>, <<"a", "/", "/", "b">>,
              <<"d", "/", "a", "/", "b">>}

\* a wrapped snapshot URL: /web/<ts>/<scheme>://<host>/<path>
Wrapped(ts, scheme, host, path) ==
    [url |-> ArchiveHost \o <<"/">> \o Web \o <<"/">> \o ts \o <<"/">>
                 \o scheme \o <<":", "/", "/">> \o host \o <<"/">> \o path,
     wrapped |-> TRUE, ts |-> ts, scheme |-> scheme, host |-> host,
     path |-> path]

\* a URL that is no wrapped snapshot
Plain(path) ==
    [url |-> ArchiveHost \o path, wrapped |-> FALSE, ts |-> <<>>,
     scheme |-> <<>>, host |-> <<>>, path |-> path]

PlainPaths == {<<>>, <<"/">> \o Web, <<"/">> \o Web \o <<"/", "1">>,
               <<"/">> \o Web \o <<"/", "1", "/">> \o Http \o <<":">>,
               <<"/">> \o Web \o <<"/", "1", "/", "a">>}

PageInputs ==
    {Wrapped(ts, sc, h, pa) :
        ts \in PageTs, sc \in PageSchemes, h \in PageHosts, pa \in PagePaths}
    \cup {Plain(pa) : pa \in PlainPaths}

NoPage == [url |-> <<>>, wrapped |-> FALSE, ts |-> <<>>, scheme |-> <<>>,
           host |-> <<>>, path |-> <<>>]

\* ------------------------------------------------------------------------
\* State
\* ------------------------------------------------------------------------

VARIABLES
    pc,             \* main's position: "harvest", "auto", "manual", "done"
    ra_urls,        \* main: the set of harvested archive URLs
    queue,          \* main: the URLs the running for loop has still to visit
    manual_input,   \* main: args.manual_urls.strip()
    skipped_urls,   \* main: the automatic phase's skip list
    skipped_manual, \* main: the manual phase's skip list
    printed,        \* the URLs the final report has printed, in order
    ra_dir,         \* RA_DIR: file name -> "absent" | "partial" | "full"
    flac_dir,       \* FLAC_DIR: file name -> "absent" | "partial" | "full"
    fpc,            \* download_and_convert's position:
                    \*   "idle", "download", "convert", "returned"
    url,            \* download_and_convert: its argument url
    target,         \* download_and_convert: which list skipped_list is
    attempt,        \* download_and_convert: the for loop's attempt
    result,         \* download_and_convert: the value returned
    log,            \* what the running call has done so far, in order
    pre,            \* the directories and the skip list as the call began
    attempted,      \* the URLs for which a call has returned
    page,           \* parse_archive_base: the page URL and what it was built of
    parsed          \* parse_archive_base: the pair returned, once returned

mainVars == <<pc, ra_urls, queue, manual_input, skipped_urls, skipped_manual,
              printed>>

diskVars == <<ra_dir, flac_dir>>

callVars == <<fpc, url, target, attempt, result, log, pre, attempted>>

parseVars == <<page, parsed>>

vars == <<mainVars, diskVars, callVars, parseVars>>

\* the events of a call's log
Ev(kind, n) == [ev |-> kind, arg |-> n]

EvGet(status) == Ev("get", status)          \* requests.get answered status

EvGetError == Ev("get", 0)                  \* requests.get raised

EvBody(complete) == Ev("body", IF complete THEN 1 ELSE 0)

EvSleep == Ev("sleep", RETRY_WAIT_SEC)      \* time.sleep(RETRY_WAIT_SEC)

EvAppend == Ev("append", 0)                 \* skipped_list.append(url)

EvFfmpeg(code) == Ev("ffmpeg", code)        \* subprocess.run returned code

EvRemove(ok) == Ev("remove", IF ok THEN 1 ELSE 0)

\* the state as main starts: both directories made and empty
Init ==
    /\ pc = "harvest"
    /\ ra_urls = {}
    /\ queue = <<>>
    /\ manual_input = <<>>
    /\ skipped_urls = <<>>
    /\ skipped_manual = <<>>
    /\ printed = <<>>
    /\ ra_dir = [n \in RaNames |-> "absent"]
    /\ flac_dir = [n \in FlacNames |-> "absent"]
    /\ fpc = "idle"
    /\ url = <<>>
    /\ target = "auto"
    /\ attempt = 0
    /\ result = FALSE
    /\ log = <<>>
    /\ pre = [ra |-> ra_dir, flac |-> flac_dir, skip |-> <<>>]
    /\ attempted = {}
    /\ page = NoPage
    /\ parsed = NoPair

\* ------------------------------------------------------------------------
\* download_and_convert(url, skipped_list)
\* ------------------------------------------------------------------------

\* the list the running call was given
skipped_list == IF target = "auto" THEN skipped_urls ELSE skipped_manual

\* skipped_list.append(u)
AppendSkip(u) ==
    IF target = "auto"
    THEN /\ skipped_urls' = Append(skipped_urls, u)
         /\ UNCHANGED skipped_manual
    ELSE /\ skipped_manual' = Append(skipped_manual, u)
         /\ UNCHANGED skipped_urls

\* filename.lower().endswith(".ra")
EndsInRa(s) == EndsWith(LowerStr(s), DotRa)

\* EnterOutcome without the test of line 76
EnterOutcome_NoExistsCheck(u) ==
    LET filename == basename(u)
    IN IF ~EndsInRa(filename) THEN "na"
       ELSE IF ra_dir[filename] = "absent" THEN "download"
       ELSE "convert"

\* lines 67-81, 107-113: where a call goes before any request is made
EnterOutcome(u) ==
    LET filename == basename(u)
    IN IF ~EndsInRa(filename) THEN "na"
       ELSE IF flac_dir[flac_filename(filename)] # "absent" THEN "exists"
       ELSE IF ra_dir[filename] = "absent" THEN "download"
       ELSE "convert"

\* the call download_and_convert(u, t): lines 67-81, 107-113
Enter(u, t) ==
    LET o == EnterOutcome(u)
    IN /\ url' = u
       /\ target' = t
       /\ log' = <<>>
       /\ pre' = [ra |-> ra_dir, flac |-> flac_dir,
                  skip |-> IF t = "auto" THEN skipped_urls ELSE skipped_manual]
       /\ attempt' = IF o = "download" THEN 1 ELSE 0
       /\ fpc' = IF o \in {"na", "exists"} THEN "returned" ELSE o
       /\ result' = (o = "exists")
       /\ attempted' = IF o \in {"na", "exists"}
                       THEN attempted \cup {u} ELSE attempted
       /\ UNCHANGED diskVars

\* StatusOk with no test of the status
StatusOk_Any(status) == TRUE

\* StatusOk accepting every 2xx status
StatusOk_2xx(status) == status \in 200..299

\* resp.status_code == 200: line 87
StatusOk(status) == status = 200

\* ShouldRetry with <= for <
ShouldRetry_Inclusive(n) == n <= MAX_RETRIES

\* attempt < MAX_RETRIES: line 100
ShouldRetry(n) == n < MAX_RETRIES

\* range(1, MAX_RETRIES + 1) holds an attempt after n: line 83
MoreAttempts(n) == n + 1 <= MAX_RETRIES

\* lines 98-106: a requests exception in attempt `attempt`, after events evs
Failed(evs) ==
    /\ IF ShouldRetry(attempt)
       THEN /\ log' = log \o evs \o <<EvSleep>>
            /\ UNCHANGED <<skipped_urls, skipped_manual>>
       ELSE /\ log' = log \o evs \o <<EvAppend>>
            /\ AppendSkip(url)
    /\ IF MoreAttempts(attempt)
       THEN /\ attempt' = attempt + 1
            /\ UNCHANGED <<fpc, result, attempted>>
       ELSE /\ fpc' = "returned"
            /\ result' = FALSE
            /\ attempted' = attempted \cup {url}
            /\ UNCHANGED attempt

\* lines 84-86, 98-104: requests.get raises (time-out, connection error)
DownloadError ==
    /\ fpc = "download"
    /\ Failed(<<EvGetError>>)
    /\ UNCHANGED <<diskVars, url, target, pre>>

\* lines 86-93, 105-113: a status the code accepts, the whole body written
DownloadOk ==
    /\ fpc = "download"
    /\ \E status \in Statuses :
        /\ StatusOk(status)
        /\ log' = log \o <<EvGet(status), EvBody(TRUE)>>
    /\ ra_dir' = [ra_dir EXCEPT ![basename(url)] = "full"]
    /\ IF ra_dir'[basename(url)] = "absent"
       THEN /\ fpc' = "returned"
            /\ result' = FALSE
            /\ attempted' = attempted \cup {url}
       ELSE /\ fpc' = "convert"
            /\ UNCHANGED <<result, attempted>>
    /\ UNCHANGED <<flac_dir, url, target, attempt, pre, skipped_urls,
                   skipped_manual>>

\* lines 86-90, 98-104: a status the code accepts, the file opened for
\* writing, and iter_content raises before the body is complete
DownloadBroken ==
    /\ fpc = "download"
    /\ \E status \in Statuses :
        /\ StatusOk(status)
        /\ Failed(<<EvGet(status), EvBody(FALSE)>>)
    /\ ra_dir' = [ra_dir EXCEPT ![basename(url)] = "partial"]
    /\ UNCHANGED <<flac_dir, url, target, pre>>

\* lines 86-87, 94-97, 105-106: any other status
DownloadStatus ==
    /\ fpc = "download"
    /\ \E status \in Statuses :
        /\ ~StatusOk(status)
        /\ log' = log \o <<EvGet(status), EvAppend>>
    /\ AppendSkip(url)
    /\ fpc' = "returned"
    /\ result' = FALSE
    /\ attempted' = attempted \cup {url}
    /\ UNCHANGED <<diskVars, url, target, attempt, pre>>

\* RemoveFile that removes nothing
RemoveFile_Never(dir, name, ok) == dir

\* os.remove(path) on directory dir: the file goes, unless the removal fails
RemoveFile(dir, name, ok) ==
    IF ok THEN [dir EXCEPT ![name] = "absent"] ELSE dir

\* what a failed transcoder leaves at flac_path: lines 118-134 remove nothing
AfterFailedFfmpeg(dir, name, wrote) ==
    IF wrote THEN [dir EXCEPT ![name] = "partial"] ELSE dir

\* lines 116-124, 136-143: ffmpeg exits 0; os.remove succeeds or raises
ConvertOk ==
    /\ fpc = "convert"
    /\ flac_dir' = [flac_dir EXCEPT ![flac_filename(basename(url))] = "full"]
    /\ \E removed \in BOOLEAN :
        /\ ra_dir' = RemoveFile(ra_dir, basename(url), removed)
        /\ log' = log \o <<EvFfmpeg(0), EvRemove(removed)>>
    /\ fpc' = "returned"
    /\ result' = TRUE
    /\ attempted' = attempted \cup {url}
    /\ UNCHANGED <<url, target, attempt, pre, skipped_urls, skipped_manual>>

\* lines 116-123, 125-134: ffmpeg exits non-zero, having written part of
\* the output or nothing; os.remove succeeds or raises
ConvertFail ==
    /\ fpc = "convert"
    /\ \E wrote \in BOOLEAN :
        flac_dir' = AfterFailedFfmpeg(flac_dir, flac_filename(basename(url)),
                                      wrote)
    /\ \E removed \in BOOLEAN :
        /\ ra_dir' = RemoveFile(ra_dir, basename(url), removed)
        /\ log' = log \o <<EvFfmpeg(1), EvRemove(removed), EvAppend>>
    /\ AppendSkip(url)
    /\ fpc' = "returned"
    /\ result' = FALSE
    /\ attempted' = attempted \cup {url}
    /\ UNCHANGED <<url, target, attempt, pre>>

\* ------------------------------------------------------------------------
\* main()
\* ------------------------------------------------------------------------

\* no call of download_and_convert is running
Idle == fpc \in {"idle", "returned"}

\* lines 158-191: the pages are fetched and their .ra links gathered
Harvest ==
    /\ pc = "harvest"
    /\ \E S \in SUBSET HarvestURLS :
        /\ ra_urls' = S
        /\ queue' = Sorted(S)
    /\ skipped_urls' = <<>>
    /\ pc' = "auto"
    /\ UNCHANGED <<manual_input, skipped_manual, printed, diskVars, callVars>>

\* lines 192-193: the next URL of sorted(ra_urls)
AutoCall ==
    /\ pc = "auto"
    /\ Idle
    /\ queue # <<>>
    /\ Enter(Head(queue), "auto")
    /\ queue' = Tail(queue)
    /\ UNCHANGED <<pc, ra_urls, manual_input, skipped_urls, skipped_manual,
                   printed>>

\* line 197: the entries of the manual list
manual_urls(raw) ==
    LET parts == Split(raw, ",", -1)
        stripped == [i \in DOMAIN parts |-> Strip(parts[i])]
    IN SelectSeq(stripped, LAMBDA u : u # <<>>)

\* FinalReport that prints the automatic phase's list whatever the phase
FinalReport_AutoOnly(manual) == skipped_urls

\* lines 207-217: what the final report prints
FinalReport(manual) == IF manual THEN skipped_manual ELSE skipped_urls

\* lines 155, 196-199: the automatic loop is over, a manual list was given
ManualStart ==
    /\ pc = "auto"
    /\ Idle
    /\ queue = <<>>
    /\ \E raw \in ManualInputs :
        /\ Strip(raw) # <<>>
        /\ manual_input' = Strip(raw)
        /\ queue' = manual_urls(Strip(raw))
    /\ skipped_manual' = <<>>
    /\ pc' = "manual"
    /\ UNCHANGED <<ra_urls, skipped_urls, printed, diskVars, callVars>>

\* lines 155, 196, 212-219: the automatic loop is over, no manual list
NoManual ==
    /\ pc = "auto"
    /\ Idle
    /\ queue = <<>>
    /\ \E raw \in ManualInputs :
        /\ Strip(raw) = <<>>
        /\ manual_input' = Strip(raw)
    /\ printed' = FinalReport(FALSE)
    /\ pc' = "done"
    /\ UNCHANGED <<ra_urls, queue, skipped_urls, skipped_manual, diskVars,
                   callVars>>

\* lines 200-203: a manual entry that does not end in .ra is dropped
ManualDrop ==
    /\ pc = "manual"
    /\ Idle
    /\ queue # <<>>
    /\ ~EndsInRa(Head(queue))
    /\ queue' = Tail(queue)
    /\ UNCHANGED <<pc, ra_urls, manual_input, skipped_urls, skipped_manual,
                   printed, diskVars, callVars>>

\* lines 200-206: the next manual entry
ManualCall ==
    /\ pc = "manual"
    /\ Idle
    /\ queue # <<>>
    /\ EndsInRa(Head(queue))
    /\ Enter(Head(queue), "manual")
    /\ queue' = Tail(queue)
    /\ UNCHANGED <<pc, ra_urls, manual_input, skipped_urls, skipped_manual,
                   printed>>

\* lines 207-211, 219: the manual loop is over
ManualEnd ==
    /\ pc = "manual"
    /\ Idle
    /\ queue = <<>>
    /\ printed' = FinalReport(TRUE)
    /\ pc' = "done"
    /\ UNCHANGED <<ra_urls, queue, manual_input, skipped_urls, skipped_manual,
                   diskVars, callVars>>

Next ==
    \/ (Harvest /\ UNCHANGED parseVars)
    \/ (AutoCall /\ UNCHANGED parseVars)
    \/ (ManualStart /\ UNCHANGED parseVars)
    \/ (NoManual /\ UNCHANGED parseVars)
    \/ (ManualDrop /\ UNCHANGED parseVars)
    \/ (ManualCall /\ UNCHANGED parseVars)
    \/ (ManualEnd /\ UNCHANGED parseVars)
    \/ (DownloadError /\ UNCHANGED <<parseVars, pc, ra_urls, queue,
                                     manual_input, printed>>)
    \/ (DownloadOk /\ UNCHANGED <<parseVars, pc, ra_urls, queue,
                                  manual_input, printed>>)
    \/ (DownloadBroken /\ UNCHANGED <<parseVars, pc, ra_urls, queue,
                                      manual_input, printed>>)
    \/ (DownloadStatus /\ UNCHANGED <<parseVars, pc, ra_urls, queue,
                                      manual_input, printed>>)
    \/ (ConvertOk /\ UNCHANGED <<parseVars, pc, ra_urls, queue,
                                 manual_input, printed>>)
    \/ (ConvertFail /\ UNCHANGED <<parseVars, pc, ra_urls, queue,
                                   manual_input, printed>>)

Spec == Init /\ [][Next]_vars

\* ------------------------------------------------------------------------
\* parse_archive_base on its own: every page URL of PageInputs, parsed once
\* ------------------------------------------------------------------------

InitParse ==
    /\ pc = "harvest"
    /\ ra_urls = {}
    /\ queue = <<>>
    /\ manual_input = <<>>
    /\ skipped_urls = <<>>
    /\ skipped_manual = <<>>
    /\ printed = <<>>
    /\ ra_dir = [n \in RaNames |-> "absent"]
    /\ flac_dir = [n \in FlacNames |-> "absent"]
    /\ fpc = "idle"
    /\ url = <<>>
    /\ target = "auto"
    /\ attempt = 0
    /\ result = FALSE
    /\ log = <<>>
    /\ pre = [ra |-> ra_dir, flac |-> flac_dir, skip |-> <<>>]
    /\ attempted = {}
    /\ page \in PageInputs
    /\ parsed = NoPair

\* line 167: ts, orig_base = parse_archive_base(page_url)
ParseCall ==
    /\ ~parsed.returned
    /\ parsed' = parse_archive_base(page.url)
    /\ UNCHANGED <<page, mainVars, diskVars, callVars>>

NextParse == ParseCall

SpecParse == InitParse /\ [][NextParse]_vars

\* ------------------------------------------------------------------------
\* Properties
\* ------------------------------------------------------------------------

Range(q) == {q[i] : i \in DOMAIN q}

\* the running (or last) call's file names
CurRa == basename(url)

CurFlac == flac_filename(basename(url))

\* the call has returned and its URL is applicable
Returned == fpc = "returned" /\ EndsInRa(CurRa)

\* as the call began, neither its source nor its destination file was there
StartedClean ==
    /\ pre.ra[CurRa] = "absent"
    /\ pre.flac[CurFlac] = "absent"

\* the statuses of the requests of the call that were answered, and whether
\* a request raised
GetArgs == {log[i].arg : i \in {j \in DOMAIN log : log[j].ev = "get"}}

Is2xx(status) == status \in 200..299

\* the output file of URL u is there
OutputExists(u) == flac_dir[flac_filename(basename(u))] # "absent"

\* the whole output file of URL u is there
OutputComplete(u) == flac_dir[flac_filename(basename(u))] = "full"

Skipped == Range(skipped_urls) \cup Range(skipped_manual)

\* C1: a call that finds the destination file of an applicable URL returns
\* success, has made no request and run no transcoder, and has left both
\* directories and its skip list as they were; so for every such call
C1_ExistingOutputShortCircuit ==
    (Returned /\ pre.flac[CurFlac] # "absent") =>
        /\ result = TRUE
        /\ log = <<>>
        /\ ra_dir = pre.ra
        /\ flac_dir = pre.flac
        /\ skipped_list = pre.skip

\* C1's case: a call in the manual phase found the destination file, with
\* the source file there too
C1_Witness ==
    /\ Returned
    /\ target = "manual"
    /\ pre.flac[CurFlac] # "absent"
    /\ pre.ra[CurRa] # "absent"
    /\ result = TRUE

\* the download of the call succeeded and the transcoder exited zero
DownloadedAndConverted ==
    /\ Returned
    /\ StartedClean
    /\ \E i \in DOMAIN log : log[i] = EvBody(TRUE)
    /\ \E i \in DOMAIN log : log[i] = EvFfmpeg(0)

\* C2 as claimed: after a successful download and a transcoder exit of
\* zero the result is success, the destination file exists, the source
\* file is gone and the URL is not in the skip list of the call
C2_Original ==
    DownloadedAndConverted =>
        /\ result = TRUE
        /\ OutputExists(url)
        /\ ra_dir[CurRa] = "absent"
        /\ url \notin Range(skipped_list)

\* C2 as amended: after a successful download and a transcoder exit of
\* zero the result is success, the whole destination file exists, the
\* source file is gone exactly when os.remove succeeded (it stays, whole,
\* when os.remove raised), and the call has appended nothing to its skip
\* list
C2_ConvertedKeepsSkipList ==
    DownloadedAndConverted =>
        /\ result = TRUE
        /\ OutputComplete(url)
        /\ \/ /\ log[Len(log)] = EvRemove(TRUE)
              /\ ra_dir[CurRa] = "absent"
           \/ /\ log[Len(log)] = EvRemove(FALSE)
              /\ ra_dir[CurRa] = "full"
        /\ skipped_list = pre.skip

\* C2's case: downloaded, converted, the source file removed
C2_Witness ==
    /\ DownloadedAndConverted
    /\ log[Len(log)] = EvRemove(TRUE)
    /\ result = TRUE

\* C3: when every request of a call that started clean was answered with a
\* non-2xx status, the call made one request, did not sleep, wrote no
\* source file, ran no transcoder, appended its URL once and returned skip
C3_NonSuccessStatusIsTerminal ==
    (/\ Returned
     /\ StartedClean
     /\ GetArgs # {}
     /\ \A a \in GetArgs : a # 0 /\ ~Is2xx(a)) =>
        /\ \E status \in Statuses : log = <<EvGet(status), EvAppend>>
        /\ ra_dir = pre.ra
        /\ flac_dir = pre.flac
        /\ skipped_list = Append(pre.skip, url)
        /\ result = FALSE

\* C3's case: one request answered 404, the URL appended
C3_Witness ==
    /\ Returned
    /\ StartedClean
    /\ log = <<EvGet(404), EvAppend>>
    /\ result = FALSE

\* C4: when every request of a call that started clean raised, the call
\* made three requests, slept after the first and after the second only,
\* appended its URL once, after the third, ran no transcoder and returned
\* skip; while requests are still to come nothing has been appended
C4_TransportErrorsRetried ==
    (/\ fpc \in {"download", "returned"}
     /\ EndsInRa(CurRa)
     /\ StartedClean
     /\ GetArgs = {0}) =>
        /\ fpc = "download" =>
            /\ skipped_list = pre.skip
            /\ Len(log) = 2 * (attempt - 1)
            /\ attempt <= 3
        /\ fpc = "returned" =>
            /\ log = <<EvGetError, EvSleep, EvGetError, EvSleep, EvGetError,
                       EvAppend>>
            /\ skipped_list = Append(pre.skip, url)
            /\ result = FALSE
        /\ ra_dir = pre.ra
        /\ flac_dir = pre.flac

\* C4's case: the third request raised and the call returned
C4_Witness ==
    /\ Returned
    /\ StartedClean
    /\ GetArgs = {0}
    /\ Len(log) = 6
    /\ result = FALSE

\* C5 as claimed (with os.remove succeeding): after a successful download
\* and a non-zero transcoder exit the destination file is not there, the
\* source file is gone, the URL was appended once and the result is skip
C5_Original ==
    (/\ Returned
     /\ StartedClean
     /\ \E i \in DOMAIN log : log[i] = EvBody(TRUE)
     /\ \E i \in DOMAIN log : log[i] = EvFfmpeg(1)
     /\ \E i \in DOMAIN log : log[i] = EvRemove(TRUE)) =>
        /\ ~OutputExists(url)
        /\ ra_dir[CurRa] = "absent"
        /\ skipped_list = Append(pre.skip, url)
        /\ result = FALSE

\* C6 as claimed, counting only whole output files: no URL is both in a
\* skip list and has its output file, and no call downloads or transcodes
\* for a URL whose output is there
C6_Original ==
    /\ \A u \in URLS : ~(u \in Skipped /\ OutputComplete(u))
    /\ fpc \in {"download", "convert"} => ~OutputExists(url)

\* C6 as amended: every URL a call has returned for has its output file
\* or is in a skip list (or both: a URL of a skip list has its output file
\* once another URL of the same basename, or a manual retry, produced it),
\* and no call downloads or transcodes for a URL whose output is there
C6_AttemptedIsDoneOrSkipped ==
    /\ \A u \in attempted :
        EndsInRa(basename(u)) => (OutputExists(u) \/ u \in Skipped)
    /\ fpc \in {"download", "convert"} =>
        /\ ~OutputExists(url)
        /\ pre.flac[CurFlac] = "absent"

\* C6's case: a URL of the automatic skip list was retried in the manual
\* phase, downloaded and transcoded, and has its whole output file
C6_Witness ==
    /\ Returned
    /\ target = "manual"
    /\ url \in attempted
    /\ url \in Range(skipped_urls)
    /\ \E i \in DOMAIN log : log[i] = EvFfmpeg(0)
    /\ OutputComplete(url)
    /\ result = TRUE

\* C7 as claimed: a call that failed has its URL in its skip list, and as
\* the program ends every URL of both skip lists has been printed
C7_Original ==
    /\ (Returned /\ result = FALSE) => url \in Range(skipped_list)
    /\ pc = "done" => Skipped \subseteq Range(printed)

\* C7 as amended: a call that failed has its URL in its skip list; as the
\* program ends the final report has printed the manual phase's skip list
\* when a manual list was given, and the automatic phase's otherwise (with
\* a manual list the automatic phase's skip list is not in the report)
C7_FailuresRecordedAndReported ==
    /\ (Returned /\ result = FALSE) => url \in Range(skipped_list)
    /\ pc = "done" =>
        printed = IF manual_input # <<>> THEN skipped_manual
                  ELSE skipped_urls

\* C7's case: the program ends after a manual phase, both skip lists hold
\* URLs and the report holds the manual phase's
C7_Witness ==
    /\ pc = "done"
    /\ manual_input # <<>>
    /\ skipped_urls # <<>>
    /\ skipped_manual # <<>>
    /\ printed = skipped_manual

\* the directory part of a path: up to its last "/"
DirPart(path) == SubSeq(path, 1, RFind(path, "/"))

\* C8 as claimed: for /web/<ts>/<scheme>://<host>/<path> the pair is <ts>
\* and <scheme>://<host>/ followed by the directory part of <path>; for a
\* path of fewer than 5 segments it is the null pair
C8_Original ==
    parsed.returned =>
        IF page.wrapped
        THEN /\ parsed.ok
             /\ parsed.ts = page.ts
             /\ parsed.orig_base =
                    page.scheme \o <<":", "/", "/">> \o page.host \o <<"/">>
                        \o DirPart(page.path)
        ELSE Len(Split(urlparse(page.url).path, "/", 4)) < 5 => ~parsed.ok

\* C9 as claimed (for a body that streams without error): a request
\* answered with a 2xx status is followed by the whole body being written,
\* by no further request, and by no append before the transcoder has run
C9_Original ==
    \A i \in DOMAIN log :
        (/\ log[i].ev = "get"
         /\ Is2xx(log[i].arg)
         /\ ~(i < Len(log) /\ log[i + 1] = EvBody(FALSE))) =>
            /\ i < Len(log)
            /\ log[i + 1] = EvBody(TRUE)
            /\ \A j \in DOMAIN log : j > i => log[j].ev # "get"
            /\ \A j \in DOMAIN log :
                (j > i /\ log[j] = EvAppend) =>
                    \E k \in (i + 1)..(j - 1) : log[k].ev = "ffmpeg"

\* C9 as amended: a request answered 200 whose body streams without error
\* has the whole body written to the source path, is the call's last
\* request, appends nothing, and the call goes on to the transcoder, also
\* after one or two requests that raised; any other 2xx status is handled
\* as a non-success status: no file opened, the URL appended, skip
C9_Only200IsSuccess ==
    \A i \in DOMAIN log :
        log[i].ev = "get" =>
            /\ i < Len(log)
            /\ log[i].arg = 200 => log[i + 1].ev = "body"
            /\ (log[i].arg = 200 /\ log[i + 1] = EvBody(TRUE)) =>
                /\ \A j \in DOMAIN log : j > i => log[j].ev # "get"
                /\ fpc \in {"convert", "returned"}
                /\ fpc = "convert" =>
                    /\ Len(log) = i + 1
                    /\ ra_dir[CurRa] = "full"
                    /\ skipped_list = pre.skip
                /\ fpc = "returned" =>
                    /\ Len(log) > i + 1
                    /\ log[i + 2].ev = "ffmpeg"
            /\ (Is2xx(log[i].arg) /\ log[i].arg # 200) =>
                /\ log[i + 1] = EvAppend
                /\ Len(log) = i + 1
                /\ fpc = "returned"
                /\ result = FALSE
                /\ (\A j \in DOMAIN log : log[j].ev # "body") =>
                        ra_dir = pre.ra
                /\ skipped_list = Append(pre.skip, url)

\* C9's case: a request answered 200 after one that raised, its body
\* written and the call at the transcoder
C9_Witness ==
    /\ fpc = "convert"
    /\ StartedClean
    /\ log = <<EvGetError, EvSleep, EvGet(200), EvBody(TRUE)>>
    /\ ra_dir[CurRa] = "full"

\* C10 as claimed (for answers that are 200 or no 2xx status): a call
\* that started without the source file and returned skip from the
\* download step leaves no source file, and the transcoder is never run on
\* an incomplete source file
C10_Original ==
    /\ (/\ Returned
        /\ result = FALSE
        /\ pre.ra[CurRa] = "absent"
        /\ \A a \in GetArgs : a = 200 \/ ~Is2xx(a)
        /\ \A i \in DOMAIN log : log[i].ev # "ffmpeg") =>
            ra_dir[CurRa] = "absent"
    /\ fpc = "convert" => ra_dir[CurRa] = "full"

====
